---- MODULE Spec2Model ----
(***************************************************************************)
(* A model of superstack.py, the Substack article extractor.               *)
(*                                                                         *)
(* Two specifications share the variables below.                           *)
(*   Spec       main(): fetch_page, extract_article, generate_clean_html   *)
(*              and the write of the output file.                          *)
(*   SpecClean  clean_body(): the six cleaning passes, one action each,    *)
(*              on bounded element trees.                                  *)
(*                                                                         *)
(* Python strings are sequences of lexemes (TLA+ strings): a date is       *)
(* spelled character by character, a class attribute token by token with   *)
(* " " between tokens, and a token that contains a fragment of the         *)
(* denylist is split so that the fragment is one lexeme.                   *)
(***************************************************************************)
EXTENDS Integers, Sequences, FiniteSets, TLC

VARIABLES
    pc,         \* main(): position of the run
    argv,       \* main(): sys.argv
    html,       \* main(): the page fetch_page returned (a parsed document)
    article,    \* main(): the dict extract_article returned
    file,       \* main(): contents of the output file
    error,      \* main(): the exception that ended the run
    body_elem,  \* clean_body(): the element it is given (never mutated)
    body,       \* clean_body(): the copy the passes work on
    step,       \* clean_body(): position in the function
    out         \* clean_body(): the returned string

vars == <<pc, argv, html, article, file, error, body_elem, body, step, out>>

mainVars == <<pc, argv, html, article, file, error>>
cleanVars == <<body_elem, body, step, out>>

(***************************************************************************)
(* Bounds.                                                                 *)
(***************************************************************************)
\* Elements below the body container in an input of clean_body.
MaxNodes == 2

(***************************************************************************)
(* Helpers.                                                                *)
(***************************************************************************)
Range(s) == {s[i] : i \in DOMAIN s}

Min(S) == CHOOSE x \in S : \A y \in S : x <= y

RECURSIVE SortedSeq(_)
SortedSeq(S) == IF S = {} THEN <<>> ELSE <<Min(S)>> \o SortedSeq(S \ {Min(S)})

\* dict.get(key, default)
Get(d, key, default) == IF key \in DOMAIN d THEN d[key] ELSE default

\* A dict built from the keys of d that are in keep.
Restrict(d, keep) == [k \in (DOMAIN d) \cap keep |-> d[k]]

NoParent == 0 - 1

(***************************************************************************)
(* Element trees.  A tree is [n, parent, elems]: node 0 is the element     *)
(* clean_body is given, nodes 1..n are the elements below it, numbered in  *)
(* document order.  parent[i] = NoParent for an element that was taken out *)
(* of its parent.  raised records an exception of a tree operation.        *)
(***************************************************************************)
RECURSIVE Attached(_, _)
\* i is part of the tree below (or is) the root: what find_all and str see.
Attached(t, i) ==
    IF i = 0 THEN TRUE
    ELSE IF t.parent[i] = NoParent THEN FALSE
    ELSE Attached(t, t.parent[i])

RECURSIVE Below(_, _, _)
\* i is a proper descendant of a, following parent links.
Below(t, i, a) ==
    IF i = 0 \/ t.parent[i] = NoParent THEN FALSE
    ELSE IF t.parent[i] = a THEN TRUE
    ELSE Below(t, t.parent[i], a)

RECURSIVE Depth(_, _)
Depth(t, i) == IF i = 0 THEN 0 ELSE 1 + Depth(t, t.parent[i])

Nodes(t) == 1..t.n

\* body.find_all(...): the descendants of the root among the elements that
\* match, in document order.  The root itself is never part of the result.
FindAll(t, matching) ==
    SortedSeq({i \in Nodes(t) : Attached(t, i) /\ i \in matching})

\* elem.decompose(): the element leaves its parent and it and everything below
\* it is destroyed.
Decompose(t, i) ==
    [t EXCEPT !.parent = [j \in Nodes(t) |->
        IF j = i \/ Below(t, j, i) THEN NoParent ELSE t.parent[j]]]

RECURSIVE DecomposeEach(_, _)
\* for elem in found: elem.decompose()
DecomposeEach(t, found) ==
    IF found = <<>> THEN t
    ELSE DecomposeEach(Decompose(t, Head(found)), Tail(found))

(***************************************************************************)
(* clean_body                                                              *)
(***************************************************************************)
\* Line 120 with the form element left out.
InteractiveTagsNoForm == {"button", "svg", "input", "script"}

\* Line 120: the tag names of the first pass.
InteractiveTags == {"button", "svg", "form", "input", "script"}

\* Lines 124-128.
ui_classes == << "image-link-expand", "icon-container", "restack-image",
                 "like-button", "share-button", "comment-button",
                 "subscription-widget", "subscribe-widget", "paywall" >>

\* Line 138: the style every image gets.
ImgStyle == << "max-width: 100%; height: auto;" >>

\* Line 154.
attrs_to_keep == {"href", "src", "alt", "style"}

\* body = copy(body_elem): a copy of the element and of everything below it.
Copy(t) == t

\* Lines 120-121.
RemoveInteractive(t) ==
    DecomposeEach(t, FindAll(t, {i \in Nodes(t) : t.elems[i].tag \in InteractiveTags}))

\* class_=class_name, a plain string: only a whole token of the class
\* attribute matches.
ClassMatchesExact(e, class_name) ==
    /\ "class" \in DOMAIN e.attrs
    /\ LET c == e.attrs["class"]
       IN  \E k \in DOMAIN c :
              /\ c[k] = class_name
              /\ (k = 1 \/ c[k - 1] = " ")
              /\ (k = Len(c) \/ c[k + 1] = " ")

\* class_=re.compile(class_name): the pattern is searched in every token of the
\* class attribute and in the tokens joined by " ", so it matches when the
\* fragment occurs anywhere in the attribute.  An element without a class
\* attribute never matches.
ClassMatches(e, class_name) ==
    /\ "class" \in DOMAIN e.attrs
    /\ class_name \in Range(e.attrs["class"])

RECURSIVE RemoveUiFrom(_, _)
\* Lines 129-131: for class_name in ui_classes: find_all, decompose.
RemoveUiFrom(t, names) ==
    IF names = <<>> THEN t
    ELSE RemoveUiFrom(
             DecomposeEach(t, FindAll(t, {i \in Nodes(t) : ClassMatches(t.elems[i], Head(names))})),
             Tail(names))

RemoveUiClasses(t) == RemoveUiFrom(t, ui_classes)

\* Lines 135-138 without the defaults of img.get: an attribute the image lacks
\* stays absent.
ImgAttrsNoDefault(a) ==
    [k \in ((DOMAIN a) \cap {"src", "alt"}) \cup {"style"} |->
        IF k = "style" THEN ImgStyle ELSE a[k]]

\* Lines 135-138 with a wrong key: the alt text is read from the title attribute.
ImgAttrsFromTitle(a) ==
    [k \in {"src", "alt", "style"} |->
        IF k = "src" THEN Get(a, "src", <<>>)
        ELSE IF k = "alt" THEN Get(a, "title", <<>>)
        ELSE ImgStyle]

\* Lines 135-138: the attributes an image is left with.
ImgAttrs(a) ==
    [k \in {"src", "alt", "style"} |->
        IF k = "src" THEN Get(a, "src", <<>>)
        ELSE IF k = "alt" THEN Get(a, "alt", <<>>)
        ELSE ImgStyle]

\* Lines 134-138.
NormalizeImages(t) ==
    [t EXCEPT !.elems = [i \in DOMAIN t.elems |->
        IF i # 0 /\ Attached(t, i) /\ t.elems[i].tag = "img"
        THEN [t.elems[i] EXCEPT !.attrs = ImgAttrs(t.elems[i].attrs)]
        ELSE t.elems[i]]]

\* picture.find('img'): the first image below the picture, in document order.
\* The result is a set: empty when there is none.
FindImg(t, p) ==
    LET imgs == {j \in Nodes(t) : Below(t, j, p) /\ t.elems[j].tag = "img"}
    IN  IF imgs = {} THEN {} ELSE {Min(imgs)}

\* picture.replace_with(img): a ValueError when the picture has no parent;
\* otherwise the image leaves its place and takes the place of the picture.
ReplaceWith(t, p, img) ==
    IF t.parent[p] = NoParent
    THEN [t EXCEPT !.raised = "ValueError"]
    ELSE [t EXCEPT !.parent = [j \in Nodes(t) |->
            IF j = img THEN t.parent[p]
            ELSE IF j = p THEN NoParent
            ELSE t.parent[j]]]

RECURSIVE CollapseEach(_, _)
\* Lines 141-144, the body of the loop for each picture found.
CollapseEach(t, found) ==
    IF found = <<>> \/ t.raised # "none" THEN t
    ELSE LET p == Head(found)
             img == FindImg(t, p)
         IN  CollapseEach(
                 IF img = {} THEN t ELSE ReplaceWith(t, p, Min(img)),
                 Tail(found))

\* Lines 141-144.
CollapsePictures(t) ==
    CollapseEach(t, FindAll(t, {i \in Nodes(t) : t.elems[i].tag = "picture"}))

\* Lines 148-150 with the inline style of the anchor kept.
LinkAttrsKeepStyle(a) == Restrict(a, {"href", "style"})

\* Lines 148-150: the attributes an anchor is left with.
LinkAttrs(a) == [k \in {"href"} |-> Get(a, "href", <<>>)]

\* Lines 147-150.
SimplifyLinks(t) ==
    [t EXCEPT !.elems = [i \in DOMAIN t.elems |->
        IF i # 0 /\ Attached(t, i) /\ t.elems[i].tag = "a"
        THEN [t.elems[i] EXCEPT !.attrs = LinkAttrs(t.elems[i].attrs)]
        ELSE t.elems[i]]]

\* Lines 154-155: new_attrs.
KeepAttrs(a) == Restrict(a, attrs_to_keep)

\* Lines 153-156: body.find_all(True) is every element below the root.
StripAttributes(t) ==
    [t EXCEPT !.elems = [i \in DOMAIN t.elems |->
        IF i # 0 /\ Attached(t, i)
        THEN [t.elems[i] EXCEPT !.attrs = KeepAttrs(t.elems[i].attrs)]
        ELSE t.elems[i]]]

\* str(body): the root and every element still below it, in document order,
\* each with its nesting depth, its tag and its attributes.
Serialize(t) ==
    LET keep == SortedSeq({i \in Nodes(t) : Attached(t, i)})
    IN  << [depth |-> 0, tag |-> t.elems[0].tag, attrs |-> t.elems[0].attrs] >>
        \o [k \in 1..Len(keep) |->
              [depth |-> Depth(t, keep[k]),
               tag   |-> t.elems[keep[k]].tag,
               attrs |-> t.elems[keep[k]].attrs]]

\* BeautifulSoup(text, 'html.parser') on a serialized element: the element
\* tree the string spells.  The parent of an element is the nearest element
\* before it that is one level up.
Parse(s) ==
    [n      |-> Len(s) - 1,
     parent |-> [i \in 1..(Len(s) - 1) |->
                   (CHOOSE k \in 1..i :
                       /\ s[k].depth = s[i + 1].depth - 1
                       /\ \A m \in (k + 1)..i : s[m].depth >= s[i + 1].depth) - 1],
     elems  |-> [i \in 0..(Len(s) - 1) |-> [tag |-> s[i + 1].tag, attrs |-> s[i + 1].attrs]],
     raised |-> "none"]

\* Lines 113-158: the tree clean_body leaves, before it is serialized.
CleanTree(t) ==
    StripAttributes(SimplifyLinks(CollapsePictures(NormalizeImages(
        RemoveUiClasses(RemoveInteractive(Copy(t)))))))

\* Lines 113-158: what clean_body returns.
clean_body(t) == Serialize(CleanTree(t))

(***************************************************************************)
(* The inputs of clean_body.                                               *)
(***************************************************************************)
NoAttrs == [k \in {} |-> <<>>]

\* html.parser gives these elements no children.
VoidTags == {"img", "input", "source"}

\* The elements a page may hold below the body container.
ElementKinds == {
    [tag |-> "p",       attrs |-> NoAttrs],
    [tag |-> "p",       attrs |-> [class |-> <<"sub">>, id |-> <<"x1">>,
                                   style |-> <<"color: red">>]],
    [tag |-> "div",     attrs |-> [class |-> <<"sub", " ", "sub-", "like-button", "-x">>]],
    [tag |-> "span",    attrs |-> [class |-> <<"paywall">>, style |-> <<"color: red">>]],
    [tag |-> "button",  attrs |-> [class |-> <<"sub">>]],
    [tag |-> "svg",     attrs |-> NoAttrs],
    [tag |-> "form",    attrs |-> NoAttrs],
    [tag |-> "input",   attrs |-> [type |-> <<"email">>]],
    [tag |-> "script",  attrs |-> NoAttrs],
    [tag |-> "img",     attrs |-> [srcset |-> <<"u.png 2x">>, class |-> <<"sub">>,
                                   title |-> <<"t">>, width |-> <<"40">>]],
    [tag |-> "img",     attrs |-> [src |-> <<"u.png">>, alt |-> <<"t">>,
                                   style |-> <<"float: left">>]],
    [tag |-> "picture", attrs |-> NoAttrs],
    [tag |-> "source",  attrs |-> [srcset |-> <<"u.webp">>]],
    [tag |-> "a",       attrs |-> [href |-> <<"/p/1">>, class |-> <<"sub">>,
                                   style |-> <<"color: red">>, rel |-> <<"nofollow">>]],
    [tag |-> "a",       attrs |-> NoAttrs] }

\* Lines 94-97: the elements extract_article hands to clean_body.  The class of
\* the primary container is exactly "body markup"; the fallback container has
\* the token "available-content" among its classes.
Containers == {
    [tag |-> "div", attrs |-> [class |-> <<"body", " ", "markup">>, dir |-> <<"auto">>]],
    [tag |-> "div", attrs |-> [class |-> <<"available-content">>]],
    [tag |-> "div", attrs |-> [class |-> <<"available-content", " ", "paywall">>]] }

RECURSIVE Ancestor(_, _, _)
Ancestor(p, j, a) == j # 0 /\ (p[j] = a \/ Ancestor(p, p[j], a))

\* The parent maps of the trees of n elements numbered in document order.
ParentMaps(n) ==
    {p \in [1..n -> 0..(n - 1)] :
        \A i \in 1..n :
            /\ p[i] < i
            /\ i > 1 => (p[i] = i - 1 \/ Ancestor(p, i - 1, p[i]))}

\* The tree of container c and the n elements e under the parent map p.
Tree(n, p, e, c) ==
    [n |-> n, parent |-> p, raised |-> "none",
     elems |-> [i \in 0..n |-> IF i = 0 THEN c ELSE e[i]]]

\* No element is the child of a void element.
WellFormed(t) == \A i \in Nodes(t) : t.parent[i] = 0 \/ t.elems[t.parent[i]].tag \notin VoidTags

(***************************************************************************)
(* SpecClean: one call of clean_body, pass by pass.                        *)
(***************************************************************************)
NoDoc == [fetched |-> FALSE]
NoArticle == [extracted |-> FALSE]
NoFile == <<>>

InitClean ==
    /\ \E n \in 0..MaxNodes : \E p \in ParentMaps(n) : \E e \in [1..n -> ElementKinds] :
       \E c \in Containers :
          /\ WellFormed(Tree(n, p, e, c))
          /\ body_elem = Tree(n, p, e, c)
    /\ body = Copy(body_elem)
    /\ step = "copied"
    /\ out = <<>>
    /\ pc = "clean_body"
    /\ argv = <<>>
    /\ html = NoDoc
    /\ article = NoArticle
    /\ file = NoFile
    /\ error = "none"

\* Lines 119-121.
DoRemoveInteractive ==
    /\ step = "copied"
    /\ body.raised = "none"
    /\ body' = RemoveInteractive(body)
    /\ step' = "interactive_removed"
    /\ UNCHANGED <<body_elem, out, mainVars>>

\* Lines 123-131.
DoRemoveUiClasses ==
    /\ step = "interactive_removed"
    /\ body.raised = "none"
    /\ body' = RemoveUiClasses(body)
    /\ step' = "ui_removed"
    /\ UNCHANGED <<body_elem, out, mainVars>>

\* Lines 133-138.
DoNormalizeImages ==
    /\ step = "ui_removed"
    /\ body.raised = "none"
    /\ body' = NormalizeImages(body)
    /\ step' = "images_normalized"
    /\ UNCHANGED <<body_elem, out, mainVars>>

\* Lines 140-144.
DoCollapsePictures ==
    /\ step = "images_normalized"
    /\ body.raised = "none"
    /\ body' = CollapsePictures(body)
    /\ step' = "pictures_collapsed"
    /\ UNCHANGED <<body_elem, out, mainVars>>

\* Lines 146-150.
DoSimplifyLinks ==
    /\ step = "pictures_collapsed"
    /\ body.raised = "none"
    /\ body' = SimplifyLinks(body)
    /\ step' = "links_simplified"
    /\ UNCHANGED <<body_elem, out, mainVars>>

\* The last pass and the return of the serialized tree.
DoStripAttributes ==
    /\ step = "links_simplified"
    /\ body.raised = "none"
    /\ body' = StripAttributes(body)
    /\ out' = Serialize(body')
    /\ step' = "returned"
    /\ UNCHANGED <<body_elem, mainVars>>

NextClean ==
    \/ DoRemoveInteractive
    \/ DoRemoveUiClasses
    \/ DoNormalizeImages
    \/ DoCollapsePictures
    \/ DoSimplifyLinks
    \/ DoStripAttributes

SpecClean == InitClean /\ [][NextClean]_vars

(***************************************************************************)
(* Python values.  A value is [ty, s, items, f]: ty is its type, s the      *)
(* text of a str (or the digits of an int), items the items of a list, f    *)
(* the entries of a dict.                                                   *)
(***************************************************************************)
NoFields == [k \in {} |-> <<>>]

PyStr(s)      == [ty |-> "str",  s |-> s,    items |-> <<>>,  f |-> NoFields]
PyInt(digits) == [ty |-> "int",  s |-> digits, items |-> <<>>, f |-> NoFields]
PyNone        == [ty |-> "None", s |-> <<>>, items |-> <<>>,  f |-> NoFields]
PyList(items) == [ty |-> "list", s |-> <<>>, items |-> items, f |-> NoFields]
PyDict(f)     == [ty |-> "dict", s |-> <<>>, items |-> <<>>,  f |-> f]

\* bool(v): the truth value of a Python value.
Truthy(v) ==
    CASE v.ty = "str"  -> v.s # <<>>
      [] v.ty = "int"  -> v.s # <<"0">>
      [] v.ty = "None" -> FALSE
      [] v.ty = "list" -> v.items # <<>>
      [] v.ty = "dict" -> DOMAIN v.f # {}

\* The result of an expression: a value, or the exception it raised.
Value(v)  == [exc |-> "none", val |-> v]
Raise(e)  == [exc |-> e, val |-> PyNone]

\* json.loads(json_ld.string).  The text of a script element is None (the
\* element has no single string), malformed, or the JSON text of a value.
JsonLoads(string) ==
    CASE string.kind = "None"      -> Raise("TypeError")
      [] string.kind = "malformed" -> Raise("JSONDecodeError")
      [] string.kind = "json"      -> Value(string.value)

\* key in data
Contains(data, key) ==
    CASE data.ty = "dict" -> Value(key \in DOMAIN data.f)
      [] data.ty = "list" -> Value(\E k \in DOMAIN data.items : data.items[k] = PyStr(<<key>>))
      [] data.ty = "str"  -> Value(key \in Range(data.s))
      [] OTHER            -> Raise("TypeError")

\* data[key], for a str key
Subscript(data, key) ==
    CASE data.ty = "dict" -> IF key \in DOMAIN data.f THEN Value(data.f[key]) ELSE Raise("KeyError")
      [] OTHER            -> Raise("TypeError")

\* data.get(key, default): only a dict has the method.
DictGet(data, key, default) ==
    IF data.ty = "dict"
    THEN Value(IF key \in DOMAIN data.f THEN data.f[key] ELSE default)
    ELSE Raise("AttributeError")

(***************************************************************************)
(* Dates.  A timestamp is a sequence of characters.                        *)
(***************************************************************************)
DigitChars == <<"0", "1", "2", "3", "4", "5", "6", "7", "8", "9">>

IsDigit(c) == c \in Range(DigitChars)

DigitVal(c) == (CHOOSE k \in DOMAIN DigitChars : DigitChars[k] = c) - 1

AllDigits(s) == \A k \in DOMAIN s : IsDigit(s[k])

RECURSIVE NumVal(_)
NumVal(s) == IF s = <<>> THEN 0 ELSE 10 * NumVal(SubSeq(s, 1, Len(s) - 1)) + DigitVal(s[Len(s)])

RECURSIVE NumChars(_)
\* The decimal digits of n, without padding.
NumChars(n) == IF n < 10 THEN <<DigitChars[n + 1]>> ELSE NumChars(n \div 10) \o <<DigitChars[(n % 10) + 1]>>

RECURSIVE ReplaceZ(_)
\* date_str.replace('Z', '+00:00'): every Z of the string.
ReplaceZ(s) ==
    IF s = <<>> THEN <<>>
    ELSE (IF Head(s) = "Z" THEN <<"+", "0", "0", ":", "0", "0">> ELSE <<Head(s)>>) \o ReplaceZ(Tail(s))

IsLeap(y) == (y % 4 = 0 /\ y % 100 # 0) \/ y % 400 = 0

DaysIn(y, m) ==
    IF m = 2 THEN (IF IsLeap(y) THEN 29 ELSE 28)
    ELSE IF m \in {4, 6, 9, 11} THEN 30 ELSE 31

\* HH:MM, both in range.
IsHourMinute(s) ==
    /\ Len(s) = 5 /\ s[3] = ":"
    /\ AllDigits(SubSeq(s, 1, 2)) /\ AllDigits(SubSeq(s, 4, 5))
    /\ NumVal(SubSeq(s, 1, 2)) < 24 /\ NumVal(SubSeq(s, 4, 5)) < 60

\* The time of day HH[:MM[:SS[.fff[fff]]]].
IsTimeOfDay(s) ==
    \/ Len(s) = 2 /\ AllDigits(s) /\ NumVal(s) < 24
    \/ IsHourMinute(s)
    \/ /\ Len(s) \in {8, 12, 15}
       /\ IsHourMinute(SubSeq(s, 1, 5))
       /\ s[6] = ":" /\ AllDigits(SubSeq(s, 7, 8)) /\ NumVal(SubSeq(s, 7, 8)) < 60
       /\ Len(s) > 8 => s[9] = "." /\ AllDigits(SubSeq(s, 10, Len(s)))

\* The time part of a timestamp: a time of day, then an optional UTC offset
\* +HH:MM or -HH:MM.
IsTimePart(s) ==
    \/ IsTimeOfDay(s)
    \/ /\ Len(s) > 6
       /\ s[Len(s) - 5] \in {"+", "-"}
       /\ IsHourMinute(SubSeq(s, Len(s) - 4, Len(s)))
       /\ IsTimeOfDay(SubSeq(s, 1, Len(s) - 6))

\* datetime.fromisoformat(s): YYYY-MM-DD, alone or followed by one separator
\* character and a time part; a ValueError for anything else.
FromIsoFormat(s) ==
    IF /\ Len(s) >= 10
       /\ AllDigits(SubSeq(s, 1, 4)) /\ s[5] = "-"
       /\ AllDigits(SubSeq(s, 6, 7)) /\ s[8] = "-"
       /\ AllDigits(SubSeq(s, 9, 10))
       /\ NumVal(SubSeq(s, 1, 4)) >= 1
       /\ NumVal(SubSeq(s, 6, 7)) \in 1..12
       /\ NumVal(SubSeq(s, 9, 10)) \in 1..DaysIn(NumVal(SubSeq(s, 1, 4)), NumVal(SubSeq(s, 6, 7)))
       /\ Len(s) > 10 => (Len(s) > 11 /\ IsTimePart(SubSeq(s, 12, Len(s))))
    THEN [exc |-> "none",
          year  |-> NumVal(SubSeq(s, 1, 4)),
          month |-> NumVal(SubSeq(s, 6, 7)),
          day   |-> NumVal(SubSeq(s, 9, 10))]
    ELSE [exc |-> "ValueError", year |-> 0, month |-> 0, day |-> 0]

MonthAbbr ==
    << <<"J", "a", "n">>, <<"F", "e", "b">>, <<"M", "a", "r">>, <<"A", "p", "r">>,
       <<"M", "a", "y">>, <<"J", "u", "n">>, <<"J", "u", "l">>, <<"A", "u", "g">>,
       <<"S", "e", "p">>, <<"O", "c", "t">>, <<"N", "o", "v">>, <<"D", "e", "c">> >>

\* %d: the day of the month, two digits.
DayChars(d) == IF d < 10 THEN <<"0">> \o NumChars(d) ELSE NumChars(d)

\* dt.strftime('%b %d, %Y')
Strftime(dt) ==
    MonthAbbr[dt.month] \o <<" ">> \o DayChars(dt.day) \o <<",", " ">> \o NumChars(dt.year)

\* content[:10]
Prefix10(s) == SubSeq(s, 1, IF Len(s) < 10 THEN Len(s) ELSE 10)

(***************************************************************************)
(* extract_article                                                         *)
(***************************************************************************)
IsSpace(c) == c \in {" ", "\n", "\t"}

RECURSIVE LStrip(_)
LStrip(s) == IF s # <<>> /\ IsSpace(Head(s)) THEN LStrip(Tail(s)) ELSE s

RECURSIVE RStrip(_)
RStrip(s) == IF s # <<>> /\ IsSpace(s[Len(s)]) THEN RStrip(SubSeq(s, 1, Len(s) - 1)) ELSE s

RECURSIVE GetTextStrip(_)
\* title_elem.get_text(strip=True): the strings of the element, each stripped,
\* the empty ones dropped, joined without a separator.
GetTextStrip(strings) ==
    IF strings = <<>> THEN <<>>
    ELSE LStrip(RStrip(Head(strings))) \o GetTextStrip(Tail(strings))

\* Lines 49-50.
ExtractTitle(doc) ==
    IF doc.title_elem.present THEN GetTextStrip(doc.title_elem.strings) ELSE <<"Untitled">>

\* Lines 63-68: the body of the try block of the author.
AuthorFromData(string, author) ==
    LET loaded == JsonLoads(string)
    IN  IF loaded.exc # "none" THEN loaded
        ELSE LET data == loaded.val
                 has  == Contains(data, "author")
             IN  IF has.exc # "none" THEN has
                 ELSE IF ~has.val THEN Value(author)
                 ELSE LET a == Subscript(data, "author")
                      IN  IF a.exc # "none" THEN a
                          ELSE IF a.val.ty = "list" /\ Len(a.val.items) > 0
                               THEN DictGet(a.val.items[1], "name", author)
                          ELSE IF a.val.ty = "dict"
                               THEN DictGet(a.val, "name", author)
                          ELSE Value(author)

\* Line 69: the exceptions the author block swallows.
AuthorCaught == {"JSONDecodeError", "KeyError", "TypeError"}

\* Lines 53-70.
ExtractAuthor(doc) ==
    LET author == PyStr(<<"Unknown Author">>)
    IN  IF /\ doc.meta_author.present
           /\ doc.meta_author.has_content
           /\ doc.meta_author.content # <<>>
        THEN Value(PyStr(doc.meta_author.content))
        ELSE IF ~doc.json_ld.present THEN Value(author)
        ELSE LET r == AuthorFromData(doc.json_ld.string, author)
             IN  IF r.exc \in AuthorCaught THEN Value(author) ELSE r

\* Lines 78-84: the body of the try block of the date.
DateFromData(string) ==
    LET loaded == JsonLoads(string)
    IN  IF loaded.exc # "none" THEN loaded
        ELSE LET got == DictGet(loaded.val, "datePublished", PyStr(<<>>))
             IN  IF got.exc # "none" THEN got
                 ELSE IF ~Truthy(got.val) THEN Value(<<>>)
                 ELSE IF got.val.ty # "str" THEN Raise("AttributeError")
                 ELSE LET dt == FromIsoFormat(ReplaceZ(got.val.s))
                      IN  IF dt.exc # "none" THEN Raise(dt.exc) ELSE Value(Strftime(dt))

\* Line 85: the exceptions the date block swallows.
DateCaught == {"JSONDecodeError", "KeyError", "TypeError", "ValueError"}

\* Lines 88-91.
DateFromMeta(doc) ==
    IF doc.meta_date.present
    THEN Prefix10(IF doc.meta_date.has_content THEN doc.meta_date.content ELSE <<>>)
    ELSE <<>>

\* Lines 73-91.
ExtractDate(doc) ==
    LET fromLd == IF ~doc.json_ld.present THEN Value(<<>>)
                  ELSE LET r == DateFromData(doc.json_ld.string)
                       IN  IF r.exc \in DateCaught THEN Value(<<>>) ELSE r
    IN  IF fromLd.exc # "none" THEN fromLd
        ELSE IF fromLd.val # <<>> THEN fromLd
        ELSE Value(DateFromMeta(doc))

BodyNotFound == "ValueError: Could not find article body in the HTML"

\* Lines 94-100: the body container, a set that is empty when there is none.
LocateBody(doc) ==
    IF doc.primary.present THEN {doc.primary.tree}
    ELSE IF doc.fallback.present THEN {doc.fallback.tree}
    ELSE {}

Failed(e) == [exc |-> e, article |-> [extracted |-> FALSE]]

\* Lines 44-110.
extract_article(doc) ==
    LET title  == ExtractTitle(doc)
        author == ExtractAuthor(doc)
    IN  IF author.exc # "none" THEN Failed(author.exc)
        ELSE LET date == ExtractDate(doc)
             IN  IF date.exc # "none" THEN Failed(date.exc)
                 ELSE LET found == LocateBody(doc)
                      IN  IF found = {} THEN Failed(BodyNotFound)
                          ELSE LET cleaned == CleanTree(CHOOSE t \in found : TRUE)
                               IN  IF cleaned.raised # "none" THEN Failed(cleaned.raised)
                                   ELSE [exc |-> "none",
                                         article |-> [extracted |-> TRUE,
                                                      title  |-> title,
                                                      author |-> author.val,
                                                      date   |-> date.val,
                                                      body   |-> Serialize(cleaned)]]

(***************************************************************************)
(* generate_clean_html                                                     *)
(***************************************************************************)
\* str(v), as an f-string formats a value.
Str(v) ==
    CASE v.ty = "str"  -> v.s
      [] v.ty = "int"  -> v.s
      [] v.ty = "None" -> <<"None">>
      [] v.ty = "list" -> <<"[...]">>
      [] v.ty = "dict" -> <<"{...}">>

\* Lines 161-233: the parts of the page that depend on the article.
generate_clean_html(a) ==
    [head_title |-> a.title,
     h1         |-> a.title,
     author     |-> Str(a.author),
     date_span  |-> IF a.date # <<>> THEN <<" &middot; ">> \o a.date ELSE <<>>,
     content    |-> a.body]

(***************************************************************************)
(* The pages fetch_page may return.                                        *)
(***************************************************************************)
IsoZ == <<"2", "0", "2", "4", "-", "0", "1", "-", "0", "5", "T",
          "1", "2", ":", "0", "0", ":", "0", "0", "Z">>

BadMonth == <<"2", "0", "2", "4", "-", "1", "3", "-", "0", "5", "T",
              "1", "2", ":", "0", "0", ":", "0", "0", "Z">>

MetaTime == <<"2", "0", "2", "3", "-", "1", "2", "-", "3", "1", "T",
              "0", "8", ":", "3", "0", ":", "0", "0", ".", "0", "0", "0", "Z">>

\* An optional entry of a JSON object: <<>> when the key is absent.
AuthorEntries == {
    <<>>,
    <<PyList(<<>>)>>,
    <<PyList(<<PyStr(<<"Ann Lee">>)>>)>>,
    <<PyList(<<PyDict([name |-> PyStr(<<"Ann Lee">>)])>>)>>,
    <<PyList(<<PyDict(NoFields)>>)>>,
    <<PyDict([name |-> PyStr(<<"Ann Lee">>)])>>,
    <<PyDict([name |-> PyNone])>>,
    <<PyDict(NoFields)>>,
    <<PyStr(<<"Ann Lee">>)>>,
    <<PyNone>> }

DateEntries == {
    <<>>,
    <<PyStr(<<>>)>>,
    <<PyStr(IsoZ)>>,
    <<PyStr(SubSeq(IsoZ, 1, 10))>>,
    <<PyStr(BadMonth)>>,
    <<PyStr(<<"J", "a", "n", " ", "5">>)>>,
    <<PyInt(<<"5">>)>>,
    <<PyNone>> }

JsonObject(a, d) ==
    PyDict([k \in (IF a = <<>> THEN {} ELSE {"author"})
                  \cup (IF d = <<>> THEN {} ELSE {"datePublished"}) |->
              IF k = "author" THEN a[1] ELSE d[1]])

\* The values a linked-data block may spell.
JsonValues ==
    {JsonObject(a, d) : a \in AuthorEntries, d \in DateEntries}
    \cup {PyList(<<>>), PyList(<<PyStr(<<"author">>)>>), PyStr(<<"author">>),
          PyInt(<<"5">>), PyNone}

NoString == [kind |-> "None", value |-> PyNone]

\* soup.find('script', type='application/ld+json'): the first such element.
JsonLdElems ==
    {[present |-> FALSE, string |-> NoString],
     [present |-> TRUE,  string |-> NoString],
     [present |-> TRUE,  string |-> [kind |-> "malformed", value |-> PyNone]]}
    \cup {[present |-> TRUE, string |-> [kind |-> "json", value |-> v]] : v \in JsonValues}

\* soup.find('h1', class_='post-title')
TitleElems ==
    {[present |-> FALSE, strings |-> <<>>],
     [present |-> TRUE,  strings |-> << <<"\n", " ", "Test Post", " ">> >>]}

\* soup.find('meta', attrs={'name': 'author'})
MetaAuthorElems ==
    {[present |-> FALSE, has_content |-> FALSE, content |-> <<>>],
     [present |-> TRUE,  has_content |-> FALSE, content |-> <<>>],
     [present |-> TRUE,  has_content |-> TRUE,  content |-> <<>>],
     [present |-> TRUE,  has_content |-> TRUE,  content |-> <<"Jane Doe">>]}

\* soup.find('meta', property='article:published_time')
MetaDateElems ==
    {[present |-> FALSE, has_content |-> FALSE, content |-> <<>>],
     [present |-> TRUE,  has_content |-> FALSE, content |-> <<>>],
     [present |-> TRUE,  has_content |-> TRUE,  content |-> <<"2", "0", "2", "3">>],
     [present |-> TRUE,  has_content |-> TRUE,  content |-> MetaTime]}

Paragraph == [tag |-> "p", attrs |-> NoAttrs]
Button    == [tag |-> "button", attrs |-> [class |-> <<"sub">>]]

PrimaryContainer ==
    [tag |-> "div", attrs |-> [class |-> <<"body", " ", "markup">>, dir |-> <<"auto">>]]

FallbackContainer == [tag |-> "div", attrs |-> [class |-> <<"available-content">>]]

NoTree == Tree(0, <<>>, <<>>, [tag |-> "", attrs |-> NoAttrs])

\* soup.find('div', class_='body markup') and soup.find('div',
\* class_='available-content'): a container with one paragraph and one button.
PrimaryElems ==
    {[present |-> FALSE, tree |-> NoTree],
     [present |-> TRUE,  tree |-> Tree(2, <<0, 0>>, <<Paragraph, Button>>, PrimaryContainer)]}

FallbackElems ==
    {[present |-> FALSE, tree |-> NoTree],
     [present |-> TRUE,  tree |-> Tree(2, <<0, 1>>, <<Paragraph, Button>>, FallbackContainer)]}

(***************************************************************************)
(* Spec: one run of main().                                                *)
(***************************************************************************)
Init ==
    /\ pc = "start"
    /\ argv \in {<<"superstack.py">>,
                 <<"superstack.py", "https://substack.com/inbox/post/183535301">>,
                 <<"superstack.py", "https://substack.com/inbox/post/183535301", "article.html">>}
    /\ html = NoDoc
    /\ article = NoArticle
    /\ file = NoFile
    /\ error = "none"
    /\ body_elem = NoTree
    /\ body = NoTree
    /\ step = "idle"
    /\ out = <<>>

\* Lines 237-241.
Usage ==
    /\ pc = "start"
    /\ Len(argv) < 2
    /\ pc' = "exit_1"
    /\ UNCHANGED <<argv, html, article, file, error, cleanVars>>

\* Lines 243-247 and 32-41: fetch_page returns the text of the page.
FetchReturns ==
    /\ pc = "start"
    /\ Len(argv) >= 2
    /\ \E t \in TitleElems, ma \in MetaAuthorElems, ld \in JsonLdElems,
          md \in MetaDateElems, pr \in PrimaryElems, fb \in FallbackElems :
          html' = [fetched |-> TRUE, title_elem |-> t, meta_author |-> ma, json_ld |-> ld,
                   meta_date |-> md, primary |-> pr, fallback |-> fb]
    /\ pc' = "fetched"
    /\ UNCHANGED <<argv, article, file, error, cleanVars>>

\* Lines 38-40: the request fails or raise_for_status raises.
FetchRaises ==
    /\ pc = "start"
    /\ Len(argv) >= 2
    /\ \E e \in {"httpx.HTTPStatusError", "httpx.ConnectError", "httpx.TimeoutException"} :
          error' = e
    /\ pc' = "failed"
    /\ UNCHANGED <<argv, html, article, file, cleanVars>>

\* Lines 249-250.
Extract ==
    /\ pc = "fetched"
    /\ LET r == extract_article(html)
       IN  IF r.exc = "none"
           THEN /\ article' = r.article
                /\ pc' = "extracted"
                /\ error' = error
           ELSE /\ article' = article
                /\ pc' = "failed"
                /\ error' = r.exc
    /\ UNCHANGED <<argv, html, file, cleanVars>>

\* Line 244.
output_file == IF Len(argv) > 2 THEN argv[3] ELSE "output.html"

\* Lines 252-260.
WriteFile ==
    /\ pc = "extracted"
    /\ file' = <<[path |-> output_file, text |-> generate_clean_html(article)]>>
    /\ pc' = "done"
    /\ UNCHANGED <<argv, html, article, error, cleanVars>>

\* Line 257: open() fails.
OpenRaises ==
    /\ pc = "extracted"
    /\ error' = "OSError"
    /\ pc' = "failed"
    /\ UNCHANGED <<argv, html, article, file, cleanVars>>

Next ==
    \/ Usage
    \/ FetchReturns
    \/ FetchRaises
    \/ Extract
    \/ WriteFile
    \/ OpenRaises

Spec == Init /\ [][Next]_vars

(***************************************************************************)
(* Properties of main() and extract_article.                               *)
(***************************************************************************)
\* The fetched page holds a body container.
HasBody == html.fetched /\ (html.primary.present \/ html.fallback.present)

\* extract_article was called and has ended, by returning or by raising.
ExtractEnded == html.fetched /\ pc # "fetched"

\* C1 (as claimed): the output file exists only after fetch_page returned and
\* extract_article returned an article; for a page without primary and
\* fallback body container extract_article raises the body-not-found error and
\* no file is written; when fetch_page fails nothing is extracted or written.
C1_FileOnlyAfterExtraction ==
    /\ file # NoFile => html.fetched /\ article.extracted
    /\ (ExtractEnded /\ ~HasBody) =>
          /\ pc = "failed"
          /\ error = "ValueError: Could not find article body in the HTML"
          /\ file = NoFile
    /\ ~html.fetched => ~article.extracted /\ file = NoFile

\* The part of C1 that is about the order of the steps: a file is written
\* only after fetch_page and extract_article returned, and a run whose page
\* has no body container fails without a file.
NoFileWithoutArticle ==
    /\ file # NoFile => html.fetched /\ article.extracted /\ pc = "done"
    /\ (ExtractEnded /\ ~HasBody) => pc = "failed" /\ file = NoFile
    /\ ~html.fetched => ~article.extracted /\ file = NoFile

\* C2 (as claimed): for a page with a body container extract_article returns
\* an article, whatever the linked-data block and the meta tags hold.
C2_ExtractNeverRaises ==
    (ExtractEnded /\ HasBody) => article.extracted

\* C9 (as claimed): when the meta author tag has non-empty content, the
\* article extract_article returns has that content as its author, whatever
\* the linked-data block holds.
C9_MetaAuthorWins ==
    (ExtractEnded /\ HasBody /\ html.meta_author.present /\ html.meta_author.has_content
        /\ html.meta_author.content # <<>>) =>
        /\ article.extracted
        /\ article.author = PyStr(html.meta_author.content)

\* The datePublished of the linked-data block is a non-empty string that
\* parses as an ISO-8601 timestamp, Z read as +00:00.
LdDateParses ==
    /\ html.json_ld.present
    /\ html.json_ld.string.kind = "json"
    /\ html.json_ld.string.value.ty = "dict"
    /\ "datePublished" \in DOMAIN html.json_ld.string.value.f
    /\ LET d == html.json_ld.string.value.f["datePublished"]
       IN  d.ty = "str" /\ d.s # <<>> /\ FromIsoFormat(ReplaceZ(d.s)).exc = "none"

\* C10 (as claimed): the date is the short form of the linked-data timestamp
\* when that parses; otherwise the first 10 characters of the publish-time
\* meta tag when there is one; otherwise the empty string.
C10_DateOrder ==
    (ExtractEnded /\ HasBody) =>
        /\ article.extracted
        /\ article.date =
              (IF LdDateParses
               THEN Strftime(FromIsoFormat(ReplaceZ(html.json_ld.string.value.f["datePublished"].s)))
               ELSE IF html.meta_date.present /\ html.meta_date.has_content
               THEN SubSeq(html.meta_date.content, 1,
                           IF Len(html.meta_date.content) < 10
                           THEN Len(html.meta_date.content) ELSE 10)
               ELSE <<>>)
        /\ (html.json_ld.present /\ html.json_ld.string.kind = "json"
              /\ html.json_ld.string.value = PyDict([datePublished |-> PyStr(IsoZ)]))
           => article.date = <<"J", "a", "n", " ", "0", "5", ",", " ", "2", "0", "2", "4">>

(***************************************************************************)
(* Properties of clean_body.                                               *)
(***************************************************************************)
Returned == step = "returned"

\* The elements of the tree the passes work on that are still part of it.
Kept == {i \in Nodes(body) : Attached(body, i)}

AttrNames(e) == DOMAIN e.attrs

\* The class attribute of e holds the fragment f somewhere.
HasFragment(e, f) == "class" \in AttrNames(e) /\ \E k \in DOMAIN e.attrs["class"] : e.attrs["class"][k] = f

\* clean_body never fails in a tree operation.
NeverRaises == body.raised = "none"

\* C3 (as claimed): every element of the returned string, the enclosing
\* container included, has only attributes among href, src, alt and style.
C3_AllAttributesAllowed ==
    Returned => \A k \in DOMAIN out : AttrNames(out[k]) \subseteq {"href", "src", "alt", "style"}

\* C4: every img of the output has exactly the attributes src, alt and style;
\* src and alt are those of the input image, or the empty string when the
\* input image had none; style is the fixed responsive value; this holds for
\* an image lifted out of a picture too.
C4_ImagesNormalized ==
    Returned =>
        /\ \A k \in DOMAIN out :
              out[k].tag = "img" => AttrNames(out[k]) = {"src", "alt", "style"}
        /\ \A i \in Kept :
              body.elems[i].tag = "img" =>
                 /\ body.elems[i].attrs["style"] = << "max-width: 100%; height: auto;" >>
                 /\ body.elems[i].attrs["alt"] =
                       (IF "alt" \in AttrNames(body_elem.elems[i])
                        THEN body_elem.elems[i].attrs["alt"] ELSE <<>>)
                 /\ body.elems[i].attrs["src"] =
                       (IF "src" \in AttrNames(body_elem.elems[i])
                        THEN body_elem.elems[i].attrs["src"] ELSE <<>>)

\* C4 witness: an image without alt, with srcset and class, was lifted out of
\* its picture and is part of the output.
C4_Witness ==
    /\ Returned
    /\ \E i \in Kept :
          /\ body.elems[i].tag = "img"
          /\ "alt" \notin AttrNames(body_elem.elems[i])
          /\ "srcset" \in AttrNames(body_elem.elems[i])
          /\ body_elem.elems[body_elem.parent[i]].tag = "picture"
          /\ body.parent[i] # body_elem.parent[i]

\* C5: every anchor of the output has at most the attribute href, and the
\* pass over the anchors leaves every element where it is and changes no
\* other element.
C5_AnchorsKeepOnlyHref ==
    /\ [](Returned =>
            /\ \A k \in DOMAIN out : out[k].tag = "a" => AttrNames(out[k]) \subseteq {"href"}
            /\ \A i \in Kept : body.elems[i].tag = "a" /\ "href" \in AttrNames(body_elem.elems[i])
                  => body.elems[i].attrs["href"] = body_elem.elems[i].attrs["href"])
    /\ [][step = "pictures_collapsed" =>
            /\ body'.parent = body.parent
            /\ \A i \in 0..body.n : body.elems[i].tag # "a" => body'.elems[i] = body.elems[i]]_vars

\* C5 witness: an anchor that had href, class, style and rel is part of the
\* output, with an element below it.
C5_Witness ==
    /\ Returned
    /\ \E i \in Kept :
          /\ body.elems[i].tag = "a"
          /\ {"class", "style", "rel"} \subseteq AttrNames(body_elem.elems[i])
          /\ \E j \in Kept : body.parent[j] = i

\* An element of the input is a button, svg, form, input or script element or
\* is nested in one.
InInteractive(i) ==
    LET Is(j) == body_elem.elems[j].tag \in {"button", "svg", "form", "input", "script"}
    IN  Is(i) \/ \E a \in Nodes(body_elem) : Is(a) /\ Below(body_elem, i, a)

\* C6: the output holds no button, svg, form, input or script element and no
\* element that was nested in one; the first pass removes exactly these.
C6_NoInteractiveElements ==
    /\ step # "copied" => \A i \in Kept : ~InInteractive(i)
    /\ step = "interactive_removed" =>
          /\ \A i \in Nodes(body_elem) : ~InInteractive(i) => i \in Kept
          /\ \A i \in Kept : body.parent[i] = body_elem.parent[i]
    /\ Returned =>
          \A k \in DOMAIN out : out[k].tag \notin {"button", "svg", "form", "input", "script"}

\* C6 witness: the first pass has run on an input with a form element and an
\* element below it.
C6_Witness ==
    /\ step = "interactive_removed"
    /\ \E i, j \in Nodes(body_elem) :
          /\ body_elem.elems[i].tag = "form"
          /\ body_elem.parent[j] = i
          /\ j \notin Kept

Denylisted(e) ==
    \E f \in {"image-link-expand", "icon-container", "restack-image", "like-button",
              "share-button", "comment-button", "subscription-widget",
              "subscribe-widget", "paywall"} : HasFragment(e, f)

\* C7 (as claimed): no element of the body subtree whose class attribute holds
\* a fragment of the denylist is part of the output.
C7_NoDenylistedElement ==
    Returned =>
        \A i \in 0..body_elem.n : Denylisted(body_elem.elems[i]) => i # 0 /\ i \notin Kept

\* C7 (amended): no element below the body container whose class attribute
\* holds a fragment of the denylist, as a token or inside a token, is part of
\* the output, nor is any element nested in one.
C7_NoDenylistedDescendant ==
    step \notin {"copied", "interactive_removed"} =>
        \A i \in Nodes(body_elem) :
            Denylisted(body_elem.elems[i]) =>
                /\ i \notin Kept
                /\ \A j \in Nodes(body_elem) : Below(body_elem, j, i) => j \notin Kept

\* C7 witness: an element of class "sub sub-like-button-x" with an element
\* below it was in the input.
C7_Witness ==
    /\ Returned
    /\ \E i, j \in Nodes(body_elem) :
          /\ body_elem.elems[i].attrs = [class |-> <<"sub", " ", "sub-", "like-button", "-x">>]
          /\ body_elem.parent[j] = i
          /\ body_elem.elems[j].tag = "p"

\* C8: cleaning the output of clean_body again gives the same output.
C8_Idempotent ==
    Returned => clean_body(Parse(out)) = out

\* C8 witness: the first cleaning removed an element and changed attributes of
\* an image that is kept.
C8_Witness ==
    /\ Returned
    /\ Len(out) = 2
    /\ body_elem.n = 2
    /\ \E i \in Kept : body.elems[i].tag = "img" /\ "title" \in AttrNames(body_elem.elems[i])

====
